---- MODULE Spec2Model ----
(***************************************************************************)
(* The concurrency gate of the three comparison servers                    *)
(* (/concurrency/block and /concurrency/release).                          *)
(*                                                                         *)
(* Two scheduling regimes are modelled over the same state:                *)
(*   "threaded"     flask_comparison_server.py: threading.Lock and         *)
(*                  threading.Event, a thread may be preempted between any *)
(*                  two statements;                                        *)
(*   "cooperative"  fastapi_server.py and quart_comparison_server.py:      *)
(*                  asyncio.Lock and asyncio.Event, a handler runs without *)
(*                  interruption from one await that suspends to the next. *)
(*                                                                         *)
(* The Event's own operations (wait, set, clear) run under the Event's     *)
(* internal condition lock and are single steps.  Every statement that     *)
(* touches waiting_requests or release_round sits in a                     *)
(* `with concurrency_lock` block.  The threaded regime is given at two     *)
(* grains over the same statements:                                        *)
(*   Spec       a `with concurrency_lock` block is one step (the lock is   *)
(*              free before and after it);                                 *)
(*   SpecLocks  the acquire is a step of its own, the lock has a holder,   *)
(*              and the body with the unlock is a second step.             *)
(*                                                                         *)
(* The ramp prober of benchmarks/quick_test.py (probe_concurrency) is the  *)
(* gate's client.  SpecProbe runs it against every outcome that its HTTP   *)
(* calls can have: a response with status 200, a response with another     *)
(* status, or an exception (connection error, timeout).                    *)
(***************************************************************************)
EXTENDS Integers, FiniteSets, Sequences

\* Number of /concurrency/block requests and of /concurrency/release
\* requests that are issued.
NumBlocks == 2
NumReleases == 2

Blocks == 1..NumBlocks
Releases == 1..NumReleases

\* rearm_delay values: 0 (falsy, `if rearm_delay:` skips the sleep) and a
\* positive delay inside [0.0, 5.0].
RearmDelays == {0, 1}

Regimes == {"threaded", "cooperative"}

\* Upper bounds of delay and of rearm_delay, in seconds.
BlockDelayMax == 30
RearmDelayMax == 5

\* A request argument as float() sees it: text that is no number, NaN, or a
\* number (whole seconds).
NotANumber == [kind |-> "text", val |-> 0]
NaN == [kind |-> "nan", val |-> 0]
Num(n) == [kind |-> "num", val |-> n]

\* The arguments sent: the defaults delay=1.0 and rearm_delay=0.0, and for
\* each a text that is no number, NaN, a number below and a number above
\* the bounds.
DelayArgs == {NotANumber, NaN, Num(0 - 1), Num(1), Num(BlockDelayMax + 1)}
RearmArgs == {NotANumber, NaN, Num(0 - 1), Num(0), Num(RearmDelayMax + 1)}

\* Arguments of probe_concurrency: start and step from 1, the ceiling
\* max_concurrency from 1.
MaxStart == 2
MaxStep == 2
MaxCeiling == 4

Starts == 1..MaxStart
Steps == 1..MaxStep
Ceilings == 1..MaxCeiling

\* What an HTTP call of the prober comes to: a response with status 200, a
\* response with another status, or an exception of requests (connection
\* error, the call's own timeout).
Outcomes == {"200", "HTTP", "exception"}

\* What future.result(timeout=20) comes to when the prober collects a block
\* call: what the call came to, or the TimeoutError of the wait while the
\* call is still running.  The prober looks at a call nowhere else.
FutureOutcomes == Outcomes \cup {"timeout"}

\* Arguments of probe_sleep_window: max_workers from 1; the number of calls
\* that the window has room for.
MaxWorkers == 2
MaxSent == 4

\* Times are in hundredths of a second.  The clamp of the burst dispatcher:
\* 0.1 s and 10.0 s; the longest remaining time tried.
MinDelay == 10
MaxDelay == 1000
MaxRemaining == 1003
Remainings == 0..MaxRemaining

Workers == 1..MaxWorkers
\* Request ids: total_sent at the submit.
Requests == 0..(MaxSent - 1)

VARIABLES
    regime,            \* which server runs the gate
    concurrency_gate,  \* the Event's flag
    concurrency_lock,  \* holder of the threading.Lock, or Free
    waiting_requests,
    release_round,
    bpc,               \* position of each block handler
    b_current_round,   \* block local: current_round
    b_queued_at,       \* block local: queued_at
    b_remaining,       \* block local: remaining
    b_loaded,          \* block local: waiting_requests as read by += and -=
    rpc,               \* position of each release handler
    r_reset_gate,      \* release input: reset_gate
    r_snapshot_waiting,\* release local: snapshot_waiting
    r_current_round,   \* release local: current_round
    wave,              \* history: the release (if any) whose snapshot first
                       \* found the block registered and not yet through
                       \* the gate
    arrived_open,      \* history: the block calls that registered while the
                       \* gate's flag was set and have not yet called wait()
    ppc,               \* position of probe_concurrency
    start,             \* prober argument
    step,              \* prober argument
    max_concurrency,   \* prober argument
    concurrency,       \* prober local: the loop variable
    range_next,        \* the value the range iterator yields next
    errors,            \* prober local: errors
    reports,           \* the verdicts printed so far
    attempts,          \* history: for every level entered, the pool size,
                       \* the number of block calls submitted, what the
                       \* release call came to and what each collected
                       \* block call came to
    wpc,               \* position of probe_sleep_window
    window_open,       \* the clock: elapsed < target_sleep
    max_workers,       \* dispatcher argument
    pending,           \* dispatcher local: pending (request ids)
    drain_left,        \* the futures as_completed has yet to yield
    successes,         \* dispatcher local
    failures,          \* dispatcher local
    total_sent,        \* dispatcher local
    call_state,        \* each call_sleep: unsent, running, or its outcome
    counted,           \* history: the phases in which a call was counted
    window_report,     \* the totals printed
    b_delay,           \* block input: delay
    r_rearm_delay,     \* release input: rearm_delay
    remaining,         \* burst dispatcher: deadline - now
    sleep_delay        \* burst dispatcher: delay of the call submitted

serverVars == <<regime, concurrency_gate, concurrency_lock, waiting_requests,
                release_round, bpc, b_current_round, b_queued_at, b_remaining, b_loaded,
                rpc, r_reset_gate, r_snapshot_waiting, r_current_round, wave,
                arrived_open>>
proberVars == <<ppc, start, step, max_concurrency, concurrency, range_next,
                errors, reports, attempts>>
windowVars == <<wpc, window_open, max_workers, pending, drain_left, successes,
                failures, total_sent, call_state, counted, window_report>>
requestArgs == <<b_delay, r_rearm_delay, remaining, sleep_delay>>
clientVars == <<proberVars, windowVars, requestArgs>>
vars == <<serverVars, clientVars>>

gateVars == <<concurrency_gate, waiting_requests, release_round>>
blockLocals == <<b_current_round, b_queued_at, b_remaining, b_loaded>>
releaseLocals == <<r_reset_gate, r_snapshot_waiting, r_current_round>>
history == <<wave, arrived_open>>

Free == <<>>
BlockThread(b) == <<"block", b>>
ReleaseThread(r) == <<"release", r>>

----------------------------------------------------------------------------
\* Pure pieces of the handlers.

\* waiting_requests += 1
IncrementedForgotten(n) == n
Incremented(n) == n + 1

\* waiting_requests -= 1
DecrementedForgotten(n) == n
Decremented(n) == n - 1

\* release_round += 1
NextRoundStuck(r) == r
NextRound(r) == r + 1

\* Event.set(): the flag becomes true and every thread or task suspended in
\* Event.wait() is woken (notify_all / every waiter future resolved).  A woken
\* waiter returns from wait() without looking at the flag again and goes on
\* to its post-release sleep.
\* A handler whose client has given up ("abandoned") is still a waiter.
EventSet(pcs) ==
    [b \in Blocks |-> IF pcs[b] \in {"suspended", "abandoned"}
                      THEN "hold" ELSE pcs[b]]

\* Event.wait(): returns at once when the flag is set, suspends otherwise.
EventWaitTimesOut(flag) == "hold"
EventWait(flag) == IF flag THEN "hold" ELSE "suspended"

\* Positions of a block handler that has registered and has not yet got
\* through the gate.
BeforeGate == {"wait", "suspended", "abandoned"}

\* Requests are numbered in the order in which their handlers start.
BlockMayStart(b) ==
    bpc[b] = "start" /\ (IF b = 1 THEN TRUE ELSE bpc[b - 1] # "start")
ReleaseMayStart(r) ==
    rpc[r] = "start" /\ (IF r = 1 THEN TRUE ELSE rpc[r - 1] # "start")

----------------------------------------------------------------------------
\* The servers after start-up.
InitServer ==
    /\ regime \in Regimes
    /\ concurrency_gate = FALSE
    /\ concurrency_lock = Free
    /\ waiting_requests = 0
    /\ release_round = 1
    /\ bpc = [b \in Blocks |-> "start"]
    /\ b_current_round = [b \in Blocks |-> 0]
    /\ b_queued_at = [b \in Blocks |-> 0]
    /\ b_remaining = [b \in Blocks |-> 0]
    /\ b_loaded = [b \in Blocks |-> 0]
    /\ rpc = [r \in Releases |-> "start"]
    /\ r_reset_gate = [r \in Releases |-> TRUE]
    /\ r_snapshot_waiting = [r \in Releases |-> 0]
    /\ r_current_round = [r \in Releases |-> 0]
    /\ wave = [b \in Blocks |-> {}]
    /\ arrived_open = {}

\* Requests that leave delay and rearm_delay to their defaults.
DefaultArgs ==
    /\ b_delay = [b \in Blocks |-> Num(1)]
    /\ r_rearm_delay = [r \in Releases |-> Num(0)]

\* The dispatcher before probe_sleep_window is called.
WindowIdle ==
    /\ wpc = "idle"
    /\ window_open = FALSE
    /\ max_workers = 0
    /\ pending = {}
    /\ drain_left = {}
    /\ successes = 0
    /\ failures = <<>>
    /\ total_sent = 0
    /\ call_state = [i \in Requests |-> "unsent"]
    /\ counted = [i \in Requests |-> <<>>]
    /\ window_report = <<>>
    /\ remaining = 0
    /\ sleep_delay = 0

\* The prober before probe_concurrency is called.
ProberIdle ==
    /\ ppc = "idle"
    /\ start = 0
    /\ step = 0
    /\ max_concurrency = 0
    /\ concurrency = 0
    /\ range_next = 0
    /\ errors = <<>>
    /\ reports = <<>>
    /\ attempts = <<>>

Init == InitServer /\ ProberIdle /\ WindowIdle /\ DefaultArgs

----------------------------------------------------------------------------
\* The statements of the handlers, shared by the regimes.

\* Body of the first `with concurrency_lock` block of concurrency_block:
\* waiting_requests += 1; current_round = release_round;
\* queued_at = waiting_requests
RegisterBody(b) ==
    /\ waiting_requests' = Incremented(waiting_requests)
    /\ b_current_round' = [b_current_round EXCEPT ![b] = release_round]
    /\ b_queued_at' = [b_queued_at EXCEPT ![b] = waiting_requests']

\* Body of the second `with concurrency_lock` block of concurrency_block:
\* waiting_requests -= 1; remaining = waiting_requests
DecrementBodyReadsFirst(b) ==
    /\ waiting_requests' = Decremented(waiting_requests)
    /\ b_remaining' = [b_remaining EXCEPT ![b] = waiting_requests]
DecrementBody(b) ==
    /\ waiting_requests' = Decremented(waiting_requests)
    /\ b_remaining' = [b_remaining EXCEPT ![b] = waiting_requests']

\* What the history records at a release's snapshot.
Snapshot(r) ==
    /\ wave' = [b \in Blocks |->
                  IF bpc[b] \in BeforeGate /\ wave[b] = {}
                  THEN {r} ELSE wave[b]]
    /\ arrived_open' = arrived_open

\* What the history records at a block call's registration, and at its
\* wait().
Arrival(b) ==
    /\ arrived_open' = IF concurrency_gate THEN arrived_open \cup {b}
                                           ELSE arrived_open
    /\ wave' = wave
Waits(b) ==
    /\ arrived_open' = arrived_open \ {b}
    /\ wave' = wave

\* Body of the first `with concurrency_lock` block of concurrency_release:
\* snapshot_waiting = waiting_requests; current_round = release_round;
\* concurrency_gate.set()
SnapshotBody(r) ==
    /\ r_snapshot_waiting' = [r_snapshot_waiting EXCEPT ![r] = waiting_requests]
    /\ r_current_round' = [r_current_round EXCEPT ![r] = release_round]
    /\ bpc' = EventSet(bpc)
    /\ Snapshot(r)

\* Body of the second `with concurrency_lock` block of concurrency_release:
\* release_round += 1
IncrementBodyStale(r) == release_round' = NextRound(r_current_round[r])
IncrementBody(r) == release_round' = NextRound(release_round)

----------------------------------------------------------------------------
\* Threaded regime, flask_comparison_server.py: a `with` block is one step.

BlockRegister(b) ==
    /\ regime = "threaded"
    /\ BlockMayStart(b)
    /\ concurrency_lock = Free
    /\ RegisterBody(b)
    /\ Arrival(b)
    /\ bpc' = [bpc EXCEPT ![b] = "wait"]
    /\ UNCHANGED clientVars
    /\ UNCHANGED <<regime, concurrency_gate, concurrency_lock, release_round,
                   b_remaining, b_loaded, rpc, releaseLocals>>

\* concurrency_gate.wait()
BlockWait(b) ==
    /\ regime = "threaded"
    /\ bpc[b] = "wait"
    /\ bpc' = [bpc EXCEPT ![b] = EventWait(concurrency_gate)]
    /\ Waits(b)
    /\ UNCHANGED clientVars
    /\ UNCHANGED <<regime, gateVars, concurrency_lock, blockLocals, rpc,
                   releaseLocals>>

\* time.sleep(delay) is over; the decrement; the response is returned
BlockDecrement(b) ==
    /\ regime = "threaded"
    /\ bpc[b] = "hold"
    /\ concurrency_lock = Free
    /\ DecrementBody(b)
    /\ bpc' = [bpc EXCEPT ![b] = "done"]
    /\ UNCHANGED clientVars
    /\ UNCHANGED <<regime, concurrency_gate, concurrency_lock, release_round,
                   b_current_round, b_queued_at, b_loaded, rpc, releaseLocals, history>>

\* The request's arguments are parsed; the snapshot and the set.  Without
\* reset_gate the response is returned.
ReleaseSnapshot(r) ==
    /\ regime = "threaded"
    /\ ReleaseMayStart(r)
    /\ concurrency_lock = Free
    /\ \E reset \in BOOLEAN, delay \in RearmDelays :
          /\ r_reset_gate' = [r_reset_gate EXCEPT ![r] = reset]
          /\ rpc' = [rpc EXCEPT ![r] = IF reset THEN "rearm" ELSE "done"]
    /\ SnapshotBody(r)
    /\ concurrency_gate' = TRUE
    /\ UNCHANGED clientVars
    /\ UNCHANGED <<regime, concurrency_lock, waiting_requests, release_round,
                   blockLocals>>

\* if rearm_delay: time.sleep(rearm_delay); concurrency_gate.clear()
ReleaseClear(r) ==
    /\ regime = "threaded"
    /\ rpc[r] = "rearm"
    /\ concurrency_gate' = FALSE
    /\ rpc' = [rpc EXCEPT ![r] = "cleared"]
    /\ UNCHANGED clientVars
    /\ UNCHANGED <<regime, concurrency_lock, waiting_requests, release_round,
                   bpc, blockLocals, releaseLocals, history>>

\* release_round += 1; the response is returned
ReleaseIncrement(r) ==
    /\ regime = "threaded"
    /\ rpc[r] = "cleared"
    /\ concurrency_lock = Free
    /\ IncrementBody(r)
    /\ rpc' = [rpc EXCEPT ![r] = "done"]
    /\ UNCHANGED clientVars
    /\ UNCHANGED <<regime, concurrency_gate, concurrency_lock,
                   waiting_requests, bpc, blockLocals, releaseLocals, history>>

----------------------------------------------------------------------------
\* Cooperative regime: fastapi_server.py, quart_comparison_server.py.
\* The asyncio.Lock is never held across an await, so it is always free when
\* a handler reaches `async with concurrency_lock` and the acquire does not
\* suspend: concurrency_lock stays Free.

\* From the start of the handler to its first suspension: registration, then
\* `await concurrency_gate.wait()`, which suspends unless the flag is set, and
\* `await asyncio.sleep(delay)` otherwise.
CoopBlockRegister(b) ==
    /\ regime = "cooperative"
    /\ BlockMayStart(b)
    /\ RegisterBody(b)
    /\ bpc' = [bpc EXCEPT ![b] = EventWait(concurrency_gate)]
    /\ UNCHANGED clientVars
    /\ UNCHANGED <<regime, concurrency_gate, concurrency_lock, release_round,
                   b_remaining, b_loaded, rpc, releaseLocals, history>>

\* After asyncio.sleep(delay): the decrement and the response.
CoopBlockDecrement(b) ==
    /\ regime = "cooperative"
    /\ bpc[b] = "hold"
    /\ DecrementBody(b)
    /\ bpc' = [bpc EXCEPT ![b] = "done"]
    /\ UNCHANGED clientVars
    /\ UNCHANGED <<regime, concurrency_gate, concurrency_lock, release_round,
                   b_current_round, b_queued_at, b_loaded, rpc, releaseLocals, history>>

\* From the start of the handler to `await asyncio.sleep(rearm_delay)`, or to
\* the response when that await is not reached (reset_gate false) or skipped
\* (rearm_delay 0: the clear and the increment follow without suspension).
CoopReleaseOpen(r) ==
    /\ regime = "cooperative"
    /\ ReleaseMayStart(r)
    /\ SnapshotBody(r)
    /\ \E reset \in BOOLEAN, delay \in RearmDelays :
          /\ r_reset_gate' = [r_reset_gate EXCEPT ![r] = reset]
          /\ IF reset /\ delay = 0
             THEN /\ concurrency_gate' = FALSE
                  /\ IncrementBody(r)
                  /\ rpc' = [rpc EXCEPT ![r] = "done"]
             ELSE /\ concurrency_gate' = TRUE
                  /\ release_round' = release_round
                  /\ rpc' = [rpc EXCEPT ![r] = IF reset THEN "rearm" ELSE "done"]
    /\ UNCHANGED clientVars
    /\ UNCHANGED <<regime, concurrency_lock, waiting_requests, blockLocals>>

\* After asyncio.sleep(rearm_delay): concurrency_gate.clear(), the round
\* increment and the response.
CoopReleaseRearm(r) ==
    /\ regime = "cooperative"
    /\ rpc[r] = "rearm"
    /\ concurrency_gate' = FALSE
    /\ IncrementBody(r)
    /\ rpc' = [rpc EXCEPT ![r] = "done"]
    /\ UNCHANGED clientVars
    /\ UNCHANGED <<regime, concurrency_lock, waiting_requests, bpc,
                   blockLocals, releaseLocals, history>>

----------------------------------------------------------------------------
BlockStep(b) ==
    \/ BlockRegister(b)
    \/ BlockWait(b)
    \/ BlockDecrement(b)
    \/ CoopBlockRegister(b)
    \/ CoopBlockDecrement(b)

ReleaseStep(r) ==
    \/ ReleaseSnapshot(r)
    \/ ReleaseClear(r)
    \/ ReleaseIncrement(r)
    \/ CoopReleaseOpen(r)
    \/ CoopReleaseRearm(r)

Next ==
    \/ \E b \in Blocks : BlockStep(b)
    \/ \E r \in Releases : ReleaseStep(r)

Spec == Init /\ [][Next]_vars

----------------------------------------------------------------------------
\* Threaded regime with the lock's holder: flask_comparison_server.py.
\* BlockWait and ReleaseClear take no lock and are the actions above.

\* `with concurrency_lock:` of the registration
BlockLockUnguarded(b) ==
    /\ regime = "threaded"
    /\ BlockMayStart(b)
    /\ concurrency_lock' = BlockThread(b)
    /\ bpc' = [bpc EXCEPT ![b] = "register"]
    /\ UNCHANGED clientVars
    /\ UNCHANGED <<regime, gateVars, blockLocals, rpc, releaseLocals, history>>
BlockLock(b) ==
    /\ regime = "threaded"
    /\ BlockMayStart(b)
    /\ concurrency_lock = Free
    /\ concurrency_lock' = BlockThread(b)
    /\ bpc' = [bpc EXCEPT ![b] = "register"]
    /\ UNCHANGED clientVars
    /\ UNCHANGED <<regime, gateVars, blockLocals, rpc, releaseLocals, history>>

\* the registration; the lock is released
BlockRegisterLocked(b) ==
    /\ regime = "threaded"
    /\ bpc[b] = "register"
    /\ concurrency_lock = BlockThread(b)
    /\ RegisterBody(b)
    /\ Arrival(b)
    /\ concurrency_lock' = Free
    /\ bpc' = [bpc EXCEPT ![b] = "wait"]
    /\ UNCHANGED clientVars
    /\ UNCHANGED <<regime, concurrency_gate, release_round, b_remaining, b_loaded, rpc,
                   releaseLocals>>

\* time.sleep(delay) is over; `with concurrency_lock:` of the decrement
BlockHoldLock(b) ==
    /\ regime = "threaded"
    /\ bpc[b] = "hold"
    /\ concurrency_lock = Free
    /\ concurrency_lock' = BlockThread(b)
    /\ bpc' = [bpc EXCEPT ![b] = "decrement"]
    /\ UNCHANGED clientVars
    /\ UNCHANGED <<regime, gateVars, blockLocals, rpc, releaseLocals, history>>

\* the decrement; the lock is released and the response is returned
BlockDecrementLocked(b) ==
    /\ regime = "threaded"
    /\ bpc[b] = "decrement"
    /\ concurrency_lock = BlockThread(b)
    /\ DecrementBody(b)
    /\ concurrency_lock' = Free
    /\ bpc' = [bpc EXCEPT ![b] = "done"]
    /\ UNCHANGED clientVars
    /\ UNCHANGED <<regime, concurrency_gate, release_round, b_current_round,
                   b_queued_at, b_loaded, rpc, releaseLocals, history>>

\* the request's arguments are parsed; `with concurrency_lock:` of the snapshot
ReleaseLockUnguarded(r) ==
    /\ regime = "threaded"
    /\ ReleaseMayStart(r)
    /\ \E reset \in BOOLEAN, delay \in RearmDelays :
          r_reset_gate' = [r_reset_gate EXCEPT ![r] = reset]
    /\ concurrency_lock' = ReleaseThread(r)
    /\ rpc' = [rpc EXCEPT ![r] = "snapshot"]
    /\ UNCHANGED clientVars
    /\ UNCHANGED <<regime, gateVars, bpc, blockLocals, r_snapshot_waiting,
                   r_current_round, history>>
ReleaseLock(r) ==
    /\ regime = "threaded"
    /\ ReleaseMayStart(r)
    /\ concurrency_lock = Free
    /\ \E reset \in BOOLEAN, delay \in RearmDelays :
          r_reset_gate' = [r_reset_gate EXCEPT ![r] = reset]
    /\ concurrency_lock' = ReleaseThread(r)
    /\ rpc' = [rpc EXCEPT ![r] = "snapshot"]
    /\ UNCHANGED clientVars
    /\ UNCHANGED <<regime, gateVars, bpc, blockLocals, r_snapshot_waiting,
                   r_current_round, history>>

\* the snapshot and the set; the lock is released
ReleaseSnapshotLocked(r) ==
    /\ regime = "threaded"
    /\ rpc[r] = "snapshot"
    /\ concurrency_lock = ReleaseThread(r)
    /\ SnapshotBody(r)
    /\ concurrency_gate' = TRUE
    /\ concurrency_lock' = Free
    /\ rpc' = [rpc EXCEPT ![r] = IF r_reset_gate[r] THEN "rearm" ELSE "done"]
    /\ UNCHANGED clientVars
    /\ UNCHANGED <<regime, waiting_requests, release_round, blockLocals,
                   r_reset_gate>>

\* `with concurrency_lock:` of the round increment
ReleaseIncrementLock(r) ==
    /\ regime = "threaded"
    /\ rpc[r] = "cleared"
    /\ concurrency_lock = Free
    /\ concurrency_lock' = ReleaseThread(r)
    /\ rpc' = [rpc EXCEPT ![r] = "increment"]
    /\ UNCHANGED clientVars
    /\ UNCHANGED <<regime, gateVars, bpc, blockLocals, releaseLocals, history>>

\* the increment; the lock is released and the response is returned
ReleaseIncrementLocked(r) ==
    /\ regime = "threaded"
    /\ rpc[r] = "increment"
    /\ concurrency_lock = ReleaseThread(r)
    /\ IncrementBody(r)
    /\ concurrency_lock' = Free
    /\ rpc' = [rpc EXCEPT ![r] = "done"]
    /\ UNCHANGED clientVars
    /\ UNCHANGED <<regime, concurrency_gate, waiting_requests, bpc,
                   blockLocals, releaseLocals, history>>

BlockThreadStep(b) ==
    \/ BlockLock(b)
    \/ BlockRegisterLocked(b)
    \/ BlockWait(b)
    \/ BlockHoldLock(b)
    \/ BlockDecrementLocked(b)

ReleaseThreadStep(r) ==
    \/ ReleaseLock(r)
    \/ ReleaseSnapshotLocked(r)
    \/ ReleaseClear(r)
    \/ ReleaseIncrementLock(r)
    \/ ReleaseIncrementLocked(r)

InitLocks == Init /\ regime = "threaded"

NextLocks ==
    \/ \E b \in Blocks : BlockThreadStep(b)
    \/ \E r \in Releases : ReleaseThreadStep(r)

SpecLocks == InitLocks /\ [][NextLocks]_vars

----------------------------------------------------------------------------
\* Threaded regime at the grain of the statements inside the first `with
\* concurrency_lock` block of each handler: a thread that is inside the block
\* runs its next statement whatever the other threads do, and only the
\* acquisition looks at the lock.  The cooperative handlers run these
\* statements without an await in between and keep their single step.

\* waiting_requests += 1
BlockIncrementStatement(b) ==
    /\ regime = "threaded"
    /\ bpc[b] = "register"
    /\ waiting_requests' = Incremented(waiting_requests)
    /\ bpc' = [bpc EXCEPT ![b] = "capture_round"]
    /\ UNCHANGED clientVars
    /\ UNCHANGED <<regime, concurrency_gate, release_round, concurrency_lock,
                   blockLocals, rpc, releaseLocals, history>>

\* current_round = release_round
BlockRoundStatement(b) ==
    /\ regime = "threaded"
    /\ bpc[b] = "capture_round"
    /\ b_current_round' = [b_current_round EXCEPT ![b] = release_round]
    /\ bpc' = [bpc EXCEPT ![b] = "capture_queued"]
    /\ UNCHANGED clientVars
    /\ UNCHANGED <<regime, gateVars, concurrency_lock, b_queued_at,
                   b_remaining, b_loaded, rpc, releaseLocals, history>>

\* queued_at = waiting_requests; the lock is released
BlockQueuedStatement(b) ==
    /\ regime = "threaded"
    /\ bpc[b] = "capture_queued"
    /\ b_queued_at' = [b_queued_at EXCEPT ![b] = waiting_requests]
    /\ concurrency_lock' = Free
    /\ bpc' = [bpc EXCEPT ![b] = "wait"]
    /\ UNCHANGED clientVars
    /\ UNCHANGED <<regime, gateVars, b_current_round, b_remaining, b_loaded, rpc,
                   releaseLocals, history>>

\* snapshot_waiting = waiting_requests
ReleaseWaitingStatement(r) ==
    /\ regime = "threaded"
    /\ rpc[r] = "snapshot"
    /\ r_snapshot_waiting' =
           [r_snapshot_waiting EXCEPT ![r] = waiting_requests]
    /\ rpc' = [rpc EXCEPT ![r] = "read_round"]
    /\ UNCHANGED clientVars
    /\ UNCHANGED <<regime, gateVars, concurrency_lock, bpc, blockLocals,
                   r_reset_gate, r_current_round, history>>

\* current_round = release_round
ReleaseRoundStatement(r) ==
    /\ regime = "threaded"
    /\ rpc[r] = "read_round"
    /\ r_current_round' = [r_current_round EXCEPT ![r] = release_round]
    /\ rpc' = [rpc EXCEPT ![r] = "set"]
    /\ UNCHANGED clientVars
    /\ UNCHANGED <<regime, gateVars, concurrency_lock, bpc, blockLocals,
                   r_reset_gate, r_snapshot_waiting, history>>

\* concurrency_gate.set(); the lock is released
ReleaseSetStatement(r) ==
    /\ regime = "threaded"
    /\ rpc[r] = "set"
    /\ concurrency_gate' = TRUE
    /\ bpc' = EventSet(bpc)
    /\ concurrency_lock' = Free
    /\ rpc' = [rpc EXCEPT ![r] = IF r_reset_gate[r] THEN "rearm" ELSE "done"]
    /\ UNCHANGED clientVars
    /\ UNCHANGED <<regime, waiting_requests, release_round, blockLocals,
                   releaseLocals, history>>

BlockStatementStep(b) ==
    \/ BlockLock(b)
    \/ BlockIncrementStatement(b)
    \/ BlockRoundStatement(b)
    \/ BlockQueuedStatement(b)
    \/ BlockWait(b)
    \/ BlockHoldLock(b)
    \/ BlockDecrementLocked(b)
    \/ CoopBlockRegister(b)
    \/ CoopBlockDecrement(b)

ReleaseStatementStep(r) ==
    \/ ReleaseLock(r)
    \/ ReleaseWaitingStatement(r)
    \/ ReleaseRoundStatement(r)
    \/ ReleaseSetStatement(r)
    \/ ReleaseClear(r)
    \/ ReleaseIncrementLock(r)
    \/ ReleaseIncrementLocked(r)
    \/ CoopReleaseOpen(r)
    \/ CoopReleaseRearm(r)

NextStatements ==
    \/ \E b \in Blocks : BlockStatementStep(b)
    \/ \E r \in Releases : ReleaseStatementStep(r)

\* Fair scheduling: every handler that can take a step eventually takes
\* one (the threads are scheduled, the event loop runs every ready task,
\* the sleeps end), and every release call is eventually issued.
Fairness ==
    /\ \A b \in Blocks : WF_vars(BlockStep(b))
    /\ \A r \in Releases : WF_vars(ReleaseStep(r))

SpecFair == Init /\ [][Next]_vars /\ Fairness

SpecStatements == Init /\ [][NextStatements]_vars

----------------------------------------------------------------------------
\* Threaded regime at the grain of the read and the write of
\* `waiting_requests += 1` and `waiting_requests -= 1`, which are two
\* bytecode steps each: the thread reads the counter, then writes the value
\* it read plus or minus one.

\* waiting_requests += 1: the read
BlockLoadIncrement(b) ==
    /\ regime = "threaded"
    /\ bpc[b] = "register"
    /\ b_loaded' = [b_loaded EXCEPT ![b] = waiting_requests]
    /\ bpc' = [bpc EXCEPT ![b] = "store_increment"]
    /\ UNCHANGED clientVars
    /\ UNCHANGED <<regime, gateVars, concurrency_lock, b_current_round,
                   b_queued_at, b_remaining, rpc, releaseLocals, history>>

\* waiting_requests += 1: the write
BlockStoreIncrement(b) ==
    /\ regime = "threaded"
    /\ bpc[b] = "store_increment"
    /\ waiting_requests' = Incremented(b_loaded[b])
    /\ b_loaded' = [b_loaded EXCEPT ![b] = 0]
    /\ bpc' = [bpc EXCEPT ![b] = "capture_round"]
    /\ UNCHANGED clientVars
    /\ UNCHANGED <<regime, concurrency_gate, release_round, concurrency_lock,
                   b_current_round, b_queued_at, b_remaining, rpc,
                   releaseLocals, history>>

\* waiting_requests -= 1: the read
BlockLoadDecrement(b) ==
    /\ regime = "threaded"
    /\ bpc[b] = "decrement"
    /\ b_loaded' = [b_loaded EXCEPT ![b] = waiting_requests]
    /\ bpc' = [bpc EXCEPT ![b] = "store_decrement"]
    /\ UNCHANGED clientVars
    /\ UNCHANGED <<regime, gateVars, concurrency_lock, b_current_round,
                   b_queued_at, b_remaining, rpc, releaseLocals, history>>

\* waiting_requests -= 1: the write; remaining = waiting_requests; the lock
\* is released and the response is returned
BlockStoreDecrement(b) ==
    /\ regime = "threaded"
    /\ bpc[b] = "store_decrement"
    /\ waiting_requests' = Decremented(b_loaded[b])
    /\ b_remaining' = [b_remaining EXCEPT ![b] = waiting_requests']
    /\ b_loaded' = [b_loaded EXCEPT ![b] = 0]
    /\ concurrency_lock' = Free
    /\ bpc' = [bpc EXCEPT ![b] = "done"]
    /\ UNCHANGED clientVars
    /\ UNCHANGED <<regime, concurrency_gate, release_round, b_current_round,
                   b_queued_at, rpc, releaseLocals, history>>

BlockLoadStoreStep(b) ==
    \/ BlockLock(b)
    \/ BlockLoadIncrement(b)
    \/ BlockStoreIncrement(b)
    \/ BlockRoundStatement(b)
    \/ BlockQueuedStatement(b)
    \/ BlockWait(b)
    \/ BlockHoldLock(b)
    \/ BlockLoadDecrement(b)
    \/ BlockStoreDecrement(b)
    \/ CoopBlockRegister(b)
    \/ CoopBlockDecrement(b)

NextLoads ==
    \/ \E b \in Blocks : BlockLoadStoreStep(b)
    \/ \E r \in Releases : ReleaseStatementStep(r)

SpecLoads == Init /\ [][NextLoads]_vars

----------------------------------------------------------------------------
\* Clients that give up.  The handlers never look at their client: a call
\* whose client has timed out or disconnected stays suspended in wait() like
\* any other waiter.  The cooperative server may cancel the handler's task at
\* its await, and then none of the handler's remaining statements runs.

\* requests.get(..., timeout=15) raises in the client while the handler is
\* suspended in wait().
ClientAbandons(b) ==
    /\ bpc[b] = "suspended"
    /\ bpc' = [bpc EXCEPT ![b] = "abandoned"]
    /\ UNCHANGED <<regime, gateVars, concurrency_lock, blockLocals, rpc,
                   releaseLocals, history, clientVars>>

\* await concurrency_gate.wait() raises CancelledError.
BlockCancelled(b) ==
    /\ regime = "cooperative"
    /\ bpc[b] = "abandoned"
    /\ bpc' = [bpc EXCEPT ![b] = "cancelled"]
    /\ UNCHANGED <<regime, gateVars, concurrency_lock, blockLocals, rpc,
                   releaseLocals, history, clientVars>>

NextAbandon ==
    \/ \E b \in Blocks : BlockStep(b)
    \/ \E r \in Releases : ReleaseStep(r)
    \/ \E b \in Blocks : ClientAbandons(b)
    \/ \E b \in Blocks : BlockCancelled(b)

SpecAbandon == Init /\ [][NextAbandon]_vars

----------------------------------------------------------------------------
\* Validation of the requests' arguments: flask_comparison_server.py and
\* quart_comparison_server.py parse `delay` and `rearm_delay` with float()
\* and compare them with their bounds.  (fastapi_server.py declares the same
\* bounds with Query(ge=..., le=...).)  The validation reads nothing but the
\* request, so in SpecValidate it is the guard of the handler's first step
\* on the gate.  The threaded server is taken.

\* float(text) raises ValueError.
Parses(arg) == arg.kind # "text"

\* a < b on floats: false when either is NaN.
FloatLess(a, b) == a.kind = "num" /\ b.kind = "num" /\ a.val < b.val

\* `if delay < 0.0 or delay > 30.0` and `if rearm_delay < 0.0 or
\* rearm_delay > 5.0`
OutOfRange(d, hi) == FloatLess(d, Num(0)) \/ FloatLess(Num(hi), d)

\* The request is answered with status 400.
Rejected(arg, hi) ==
    IF Parses(arg) THEN OutOfRange(arg, hi) ELSE TRUE

\* `if rearm_delay:`
Truthy(d) == IF d.kind = "num" THEN d.val # 0 ELSE TRUE

\* time.sleep(d) raises ValueError for NaN.
SleepRaises(d) == d.kind = "nan"

\* The requests arrive with any of the arguments.
InitValidate ==
    /\ InitServer
    /\ regime = "threaded"
    /\ ProberIdle
    /\ WindowIdle
    /\ b_delay \in [Blocks -> DelayArgs]
    /\ r_rearm_delay \in [Releases -> RearmArgs]

\* return jsonify({"error": ...}), 400
BlockReject(b) ==
    /\ BlockMayStart(b)
    /\ Rejected(b_delay[b], BlockDelayMax)
    /\ bpc' = [bpc EXCEPT ![b] = "rejected"]
    /\ UNCHANGED <<regime, gateVars, concurrency_lock, blockLocals, rpc,
                   releaseLocals, history, clientVars>>

\* time.sleep(delay) raises: the handler ends without its decrement.
BlockSleepRaises(b) ==
    /\ bpc[b] = "hold"
    /\ SleepRaises(b_delay[b])
    /\ bpc' = [bpc EXCEPT ![b] = "failed"]
    /\ UNCHANGED <<regime, gateVars, concurrency_lock, blockLocals, rpc,
                   releaseLocals, history, clientVars>>

\* The validation is passed: the first `with concurrency_lock` block.
BlockAccept(b) ==
    /\ ~Rejected(b_delay[b], BlockDelayMax)
    /\ BlockRegister(b)

\* time.sleep(delay) returns: the second `with concurrency_lock` block.
BlockSleepReturns(b) ==
    /\ ~SleepRaises(b_delay[b])
    /\ BlockDecrement(b)

BlockValidatedStep(b) ==
    \/ BlockAccept(b)
    \/ BlockWait(b)
    \/ BlockSleepReturns(b)
    \/ BlockReject(b)
    \/ BlockSleepRaises(b)

\* return jsonify({"error": ...}), 400
ReleaseReject(r) ==
    /\ ReleaseMayStart(r)
    /\ Rejected(r_rearm_delay[r], RearmDelayMax)
    /\ rpc' = [rpc EXCEPT ![r] = "rejected"]
    /\ UNCHANGED <<regime, gateVars, concurrency_lock, bpc, blockLocals,
                   releaseLocals, history, clientVars>>

\* `if rearm_delay: time.sleep(rearm_delay)` raises: the handler ends
\* without the clear and without the increment.
ReleaseSleepRaises(r) ==
    /\ rpc[r] = "rearm"
    /\ Truthy(r_rearm_delay[r])
    /\ SleepRaises(r_rearm_delay[r])
    /\ rpc' = [rpc EXCEPT ![r] = "failed"]
    /\ UNCHANGED <<regime, gateVars, concurrency_lock, bpc, blockLocals,
                   releaseLocals, history, clientVars>>

\* The validation is passed: the first `with concurrency_lock` block and
\* concurrency_gate.set().
ReleaseAccept(r) ==
    /\ ~Rejected(r_rearm_delay[r], RearmDelayMax)
    /\ ReleaseSnapshot(r)

\* The sleep is skipped or returns: concurrency_gate.clear().
ReleaseSleepReturns(r) ==
    /\ Truthy(r_rearm_delay[r]) => ~SleepRaises(r_rearm_delay[r])
    /\ ReleaseClear(r)

ReleaseValidatedStep(r) ==
    \/ ReleaseAccept(r)
    \/ ReleaseSleepReturns(r)
    \/ ReleaseIncrement(r)
    \/ ReleaseReject(r)
    \/ ReleaseSleepRaises(r)

NextValidate ==
    \/ \E b \in Blocks : BlockValidatedStep(b)
    \/ \E r \in Releases : ReleaseValidatedStep(r)

SpecValidate == InitValidate /\ [][NextValidate]_vars

----------------------------------------------------------------------------
\* The ramp prober: probe_concurrency of benchmarks/quick_test.py.

\* range(start, max_concurrency + 1, step) yields v while v is below its stop.
InRangePastStop(v) == v < max_concurrency + 2
InRange(v) == v < max_concurrency + 1

\* A collected block call is an error when future.result raised or the
\* response's status is not 200.
IsErrorOnlyException(outcome) == outcome = "exception"
IsError(outcome) == outcome # "200"

\* release_gate() raises on an exception of requests.post; a response with
\* an error status is returned like any other.
ReleaseRaisesNever(outcome) == FALSE
ReleaseRaisesOnStatus(outcome) == outcome # "200"
ReleaseRaises(outcome) == outcome = "exception"

\* `break` leaves the for loop and skips its else clause.
AfterBreakContinues == "loop"
AfterBreak == "done"

\* The level the prober is at.
CurrentAttempt == attempts[Len(attempts)]

\* The prober is called.
InitProbe ==
    /\ InitServer
    /\ ppc = "loop"
    /\ start \in Starts
    /\ step \in Steps
    /\ max_concurrency \in Ceilings
    /\ concurrency = 0
    /\ range_next = start
    /\ errors = <<>>
    /\ reports = <<>>
    /\ attempts = <<>>
    /\ WindowIdle
    /\ DefaultArgs

\* The for loop yields the next level: a pool of `concurrency` workers is
\* made, `concurrency` block calls are submitted, and the prober sleeps 0.2 s.
ProbeLevel ==
    /\ ppc = "loop"
    /\ InRange(range_next)
    /\ concurrency' = range_next
    /\ range_next' = range_next + step
    /\ attempts' = Append(attempts, [level |-> concurrency',
                                     max_workers |-> concurrency',
                                     futures |-> concurrency',
                                     release |-> "none",
                                     results |-> <<>>])
    /\ ppc' = "release"
    /\ UNCHANGED <<serverVars, windowVars, requestArgs, start, step, max_concurrency, errors, reports>>

\* release_gate(); on an exception the failure is printed and the loop is
\* left, otherwise errors = [].
ProbeRelease ==
    /\ ppc = "release"
    /\ \E outcome \in Outcomes :
          /\ attempts' = [attempts EXCEPT ![Len(attempts)].release = outcome]
          /\ IF ReleaseRaises(outcome)
             THEN /\ reports' = Append(reports, <<"release failed", concurrency>>)
                  /\ ppc' = AfterBreak
                  /\ errors' = errors
             ELSE /\ reports' = reports
                  /\ ppc' = "collect"
                  /\ errors' = <<>>
    /\ UNCHANGED <<serverVars, windowVars, requestArgs, start, step, max_concurrency, concurrency,
                   range_next>>

\* One turn of `for future in futures`: future.result(timeout=20) and the
\* status check.
ProbeCollectBeforeRelease ==
    /\ ppc \in {"release", "collect"}
    /\ Len(CurrentAttempt.results) < CurrentAttempt.futures
    /\ \E outcome \in FutureOutcomes :
          /\ attempts' = [attempts EXCEPT ![Len(attempts)].results =
                                              Append(@, outcome)]
          /\ errors' = IF IsError(outcome) THEN Append(errors, outcome)
                                           ELSE errors
    /\ UNCHANGED <<serverVars, windowVars, requestArgs, ppc, start, step, max_concurrency, concurrency,
                   range_next, reports>>
ProbeCollect ==
    /\ ppc = "collect"
    /\ Len(CurrentAttempt.results) < CurrentAttempt.futures
    /\ \E outcome \in FutureOutcomes :
          /\ attempts' = [attempts EXCEPT ![Len(attempts)].results =
                                              Append(@, outcome)]
          /\ errors' = IF IsError(outcome) THEN Append(errors, outcome)
                                           ELSE errors
    /\ UNCHANGED <<serverVars, windowVars, requestArgs, ppc, start, step, max_concurrency, concurrency,
                   range_next, reports>>

\* `if errors:` the failure is printed and the loop is left; otherwise the
\* level's success is printed and the loop goes on.
ProbeVerdict ==
    /\ ppc = "collect"
    /\ Len(CurrentAttempt.results) = CurrentAttempt.futures
    /\ IF errors # <<>>
       THEN /\ reports' = Append(reports, <<"failure", concurrency>>)
            /\ ppc' = AfterBreak
       ELSE /\ reports' = Append(reports, <<"succeeded", concurrency>>)
            /\ ppc' = "loop"
    /\ UNCHANGED <<serverVars, windowVars, requestArgs, start, step, max_concurrency, concurrency,
                   range_next, errors, attempts>>

\* The range is exhausted: the else clause of the for loop.
ProbeReachedMax ==
    /\ ppc = "loop"
    /\ ~InRange(range_next)
    /\ reports' = Append(reports, <<"reached max", max_concurrency>>)
    /\ ppc' = "done"
    /\ UNCHANGED <<serverVars, windowVars, requestArgs, start, step, max_concurrency, concurrency,
                   range_next, errors, attempts>>

NextProbe ==
    \/ ProbeLevel
    \/ ProbeRelease
    \/ ProbeCollect
    \/ ProbeVerdict
    \/ ProbeReachedMax

SpecProbe == InitProbe /\ [][NextProbe]_vars

----------------------------------------------------------------------------
\* probe_concurrency as the only client of a freshly started gate: the block
\* calls of a level are the requests 1..concurrency, the release of the i-th
\* level is the request i, and what the prober collects is what the handlers
\* did.  release_gate() sends no arguments: reset_gate is true and
\* rearm_delay is 0.0.

\* The release request of the level the prober is at.
LevelRelease == Len(attempts)

InitRamp ==
    /\ InitServer
    /\ ppc = "loop"
    /\ start \in Starts
    /\ step \in Steps
    /\ max_concurrency \in {c \in Ceilings : c <= NumBlocks}
    /\ concurrency = 0
    /\ range_next = start
    /\ errors = <<>>
    /\ reports = <<>>
    /\ attempts = <<>>
    /\ WindowIdle
    /\ DefaultArgs

\* Leaving the with block of a level shuts the pool down and waits for its
\* workers (ThreadPoolExecutor.__exit__ is shutdown(wait=True)): the loop
\* goes on, or the function returns, once every worker of the level has
\* been joined.  `running` holds the workers not joined yet.
PoolJoinedNoWait == TRUE
PoolJoined ==
    IF attempts = <<>> THEN TRUE ELSE CurrentAttempt.running = {}

\* The for loop yields the next level: `concurrency` new block calls are
\* submitted to a pool of `concurrency` workers.
RampLevel ==
    /\ ppc = "loop"
    /\ PoolJoined
    /\ InRange(range_next)
    /\ Len(attempts) < NumReleases
    /\ concurrency' = range_next
    /\ range_next' = range_next + step
    /\ attempts' = Append(attempts, [level |-> concurrency',
                                     max_workers |-> concurrency',
                                     futures |-> concurrency',
                                     release |-> "none",
                                     results |-> <<>>,
                                     running |-> 1..concurrency'])
    /\ ppc' = "release"
    /\ bpc' = [b \in Blocks |-> "start"]
    /\ b_current_round' = [b \in Blocks |-> 0]
    /\ b_queued_at' = [b \in Blocks |-> 0]
    /\ b_remaining' = [b \in Blocks |-> 0]
    /\ b_loaded' = [b \in Blocks |-> 0]
    /\ wave' = [b \in Blocks |-> {}]
    /\ arrived_open' = {}
    /\ UNCHANGED <<regime, gateVars, concurrency_lock, rpc, releaseLocals,
                   windowVars, requestArgs, start, step, max_concurrency,
                   errors, reports>>

\* The handler of a submitted block call.
RampBlockStep(b) ==
    /\ b <= concurrency
    /\ BlockStep(b)

\* time.sleep(0.2) is over: requests.post is sent.
RampRelease ==
    /\ ppc = "release"
    /\ ppc' = "releasing"
    /\ UNCHANGED <<serverVars, windowVars, requestArgs, start, step,
                   max_concurrency, concurrency, range_next, errors, reports,
                   attempts>>

\* The handler of the level's release, with the default arguments.
RampReleaseStep(r) ==
    /\ r = LevelRelease
    /\ ppc # "release"
    /\ ReleaseStep(r)
    /\ r_reset_gate'[r]
    /\ (regime = "cooperative") => (rpc'[r] = "done")

\* release_gate() returns the handler's response, or raises (connection
\* error, timeout=5) whatever the handler does.
RampReleaseEnds ==
    /\ ppc = "releasing"
    /\ \E outcome \in {"200", "exception"} :
          /\ (outcome = "200") => (rpc[LevelRelease] = "done")
          /\ attempts' = [attempts EXCEPT ![Len(attempts)].release = outcome]
          /\ IF ReleaseRaises(outcome)
             THEN /\ reports' = Append(reports, <<"release failed", concurrency>>)
                  /\ ppc' = AfterBreak
                  /\ errors' = errors
             ELSE /\ reports' = reports
                  /\ ppc' = "collect"
                  /\ errors' = <<>>
    /\ UNCHANGED <<serverVars, windowVars, requestArgs, start, step,
                   max_concurrency, concurrency, range_next>>

\* What future.result(timeout=20) gives for block call b: its response once
\* the handler has returned it, an exception of requests.get (timeout=15)
\* or the TimeoutError of the wait as long as it has not.
CallOutcomes(b) ==
    IF bpc[b] = "done" THEN {"200"} ELSE {"exception", "timeout"}

\* One turn of `for future in futures`.
RampCollect ==
    /\ ppc = "collect"
    /\ Len(CurrentAttempt.results) < CurrentAttempt.futures
    /\ \E outcome \in CallOutcomes(Len(CurrentAttempt.results) + 1) :
          /\ attempts' = [attempts EXCEPT ![Len(attempts)].results =
                                              Append(@, outcome)]
          /\ errors' = IF IsError(outcome) THEN Append(errors, outcome)
                                           ELSE errors
    /\ UNCHANGED <<serverVars, windowVars, requestArgs, ppc, start, step,
                   max_concurrency, concurrency, range_next, reports>>

\* The with block has been left and the shutdown has joined every worker of
\* the level: each worker's requests.get has returned the handler's
\* response or raised (connection error, or timeout=15 with no byte from
\* the server).  After a break the function then returns.
PoolShutdown ==
    /\ ppc \in {"loop", "done"}
    /\ ~PoolJoined
    /\ attempts' = [attempts EXCEPT ![Len(attempts)].running = {}]
    /\ ppc' = IF ppc = "done" THEN "returned" ELSE ppc
    /\ UNCHANGED <<serverVars, windowVars, requestArgs, start, step,
                   max_concurrency, concurrency, range_next, errors, reports>>

\* The range is exhausted after the last level's with block was left.
RampReachedMax ==
    /\ PoolJoined
    /\ ProbeReachedMax

\* probe_concurrency returns after the else clause.
RampReturn ==
    /\ ppc = "done"
    /\ PoolJoined
    /\ ppc' = "returned"
    /\ UNCHANGED <<serverVars, windowVars, requestArgs, start, step,
                   max_concurrency, concurrency, range_next, errors, reports,
                   attempts>>

\* The steps of the prober and of its workers.
RampClientStep ==
    \/ RampLevel
    \/ RampRelease
    \/ RampReleaseEnds
    \/ RampCollect
    \/ ProbeVerdict
    \/ RampReachedMax
    \/ RampReturn
    \/ PoolShutdown

NextRamp ==
    \/ RampClientStep
    \/ \E b \in Blocks : RampBlockStep(b)
    \/ \E r \in Releases : RampReleaseStep(r)

SpecRamp == InitRamp /\ [][NextRamp]_vars

\* The prober's thread runs; release_gate() ends by its response or by
\* timeout=5, future.result by timeout=20, and each worker's requests.get
\* by its response or by timeout=15, whatever the server does.
RampFairness == WF_vars(RampClientStep)

SpecRampFair == InitRamp /\ [][NextRamp]_vars /\ RampFairness

----------------------------------------------------------------------------
\* The burst dispatcher: probe_sleep_window of benchmarks/quick_test.py.
\* The clock is kept as what the loop's test `elapsed >= target_sleep` sees
\* of it: the window is open until the deadline passes.  The delay handed to
\* a call (the clamped remaining time) does not come back to the dispatcher
\* and is left out.

\* `if elapsed >= target_sleep: break`
WindowElapsedAfterFirst == ~window_open /\ total_sent > 0
WindowElapsedNever == FALSE
WindowElapsed == ~window_open

\* `if len(pending) >= max_workers:`
PoolFullOffByOne(n) == n > max_workers
PoolFull(n) == n >= max_workers

\* concurrent.futures.wait(pending, return_when=FIRST_COMPLETED): the
\* futures that have completed, and the rest.
Done(futures) == {i \in futures : call_state[i] # "running"}
NotDoneKeepsDone(futures) == futures
NotDone(futures) == futures \ Done(futures)

\* The try block around future.result(): what a set of completed futures
\* adds to successes, and to failures.
Succeeded(futures) == {i \in futures : call_state[i] = "200"}
Failed(futures) == {i \in futures : call_state[i] \in {"HTTP", "exception"}}

\* The futures of a set as a list, in the order of their request ids.
RECURSIVE Listed(_)
Listed(futures) ==
    IF futures = {} THEN <<>>
    ELSE LET i == CHOOSE m \in futures : \A n \in futures : m <= n
         IN <<i>> \o Listed(futures \ {i})

\* What the history records when futures are counted in a phase.
Count(futures, phase) ==
    counted' = [i \in Requests |->
                   IF i \in futures THEN Append(counted[i], phase)
                                    ELSE counted[i]]

\* probe_sleep_window is called and has made its pool; the window may have
\* elapsed by the loop's first test.
InitWindow ==
    /\ InitServer
    /\ ProberIdle
    /\ DefaultArgs
    /\ wpc = "check"
    /\ window_open \in BOOLEAN
    /\ max_workers \in Workers
    /\ pending = {}
    /\ drain_left = {}
    /\ successes = 0
    /\ failures = <<>>
    /\ total_sent = 0
    /\ call_state = [i \in Requests |-> "unsent"]
    /\ counted = [i \in Requests |-> <<>>]
    /\ window_report = <<>>
    /\ remaining = 0
    /\ sleep_delay = 0

\* The clock passes the deadline.
DeadlinePasses ==
    /\ wpc \in {"check", "wait"}
    /\ window_open
    /\ window_open' = FALSE
    /\ UNCHANGED <<serverVars, proberVars, requestArgs, wpc, max_workers, pending,
                   drain_left, successes, failures, total_sent, call_state,
                   counted, window_report>>

\* A call_sleep running in a worker returns a response or raises.
CallSleepReturns(i) ==
    /\ call_state[i] = "running"
    /\ \E outcome \in Outcomes :
          call_state' = [call_state EXCEPT ![i] = outcome]
    /\ UNCHANGED <<serverVars, proberVars, requestArgs, wpc, window_open, max_workers,
                   pending, drain_left, successes, failures, total_sent,
                   counted, window_report>>

\* One turn of the loop inside the window: the call is submitted and
\* total_sent is incremented.
WindowDispatchSameIndex ==
    /\ wpc = "check"
    /\ ~WindowElapsed
    /\ total_sent < MaxSent
    /\ pending' = pending \cup {total_sent}
    /\ call_state' = [call_state EXCEPT ![total_sent] = "running"]
    /\ total_sent' = IF total_sent = 0 THEN 1 ELSE total_sent
    /\ wpc' = IF PoolFull(Cardinality(pending')) THEN "wait" ELSE "check"
    /\ UNCHANGED <<serverVars, proberVars, requestArgs, window_open, max_workers,
                   drain_left, successes, failures, counted, window_report>>
WindowDispatch ==
    /\ wpc = "check"
    /\ ~WindowElapsed
    /\ total_sent < MaxSent
    /\ pending' = pending \cup {total_sent}
    /\ call_state' = [call_state EXCEPT ![total_sent] = "running"]
    /\ total_sent' = total_sent + 1
    /\ wpc' = IF PoolFull(Cardinality(pending')) THEN "wait" ELSE "check"
    /\ UNCHANGED <<serverVars, proberVars, requestArgs, window_open, max_workers,
                   drain_left, successes, failures, counted, window_report>>

\* The pool is full: wait(FIRST_COMPLETED) returns once a pending call has
\* completed, and the completed ones are counted.
WindowWait ==
    /\ wpc = "wait"
    /\ Done(pending) # {}
    /\ successes' = successes + Cardinality(Succeeded(Done(pending)))
    /\ failures' = failures \o Listed(Failed(Done(pending)))
    /\ Count(Done(pending), "window")
    /\ pending' = NotDone(pending)
    /\ wpc' = "check"
    /\ UNCHANGED <<serverVars, proberVars, requestArgs, window_open, max_workers,
                   drain_left, total_sent, call_state, window_report>>

\* The window has elapsed: the loop is left and as_completed(pending) is
\* started.
WindowBreak ==
    /\ wpc = "check"
    /\ WindowElapsed
    /\ drain_left' = pending
    /\ wpc' = "drain"
    /\ UNCHANGED <<serverVars, proberVars, requestArgs, window_open, max_workers, pending,
                   successes, failures, total_sent, call_state, counted,
                   window_report>>

\* One turn of `for future in as_completed(pending)`.
WindowDrain(i) ==
    /\ wpc = "drain"
    /\ i \in Done(drain_left)
    /\ successes' = successes + Cardinality(Succeeded({i}))
    /\ failures' = failures \o Listed(Failed({i}))
    /\ Count({i}, "drain")
    /\ drain_left' = drain_left \ {i}
    /\ UNCHANGED <<serverVars, proberVars, requestArgs, wpc, window_open, max_workers,
                   pending, total_sent, call_state, window_report>>

\* as_completed is exhausted, the pool is shut down and the totals are
\* printed.
WindowReport ==
    /\ wpc = "drain"
    /\ drain_left = {}
    /\ window_report' = <<[dispatched |-> total_sent,
                          succeeded |-> successes,
                          failed |-> Len(failures)]>>
    /\ wpc' = "done"
    /\ UNCHANGED <<serverVars, proberVars, requestArgs, window_open, max_workers, pending,
                   drain_left, successes, failures, total_sent, call_state,
                   counted>>

NextWindow ==
    \/ DeadlinePasses
    \/ \E i \in Requests : CallSleepReturns(i)
    \/ WindowDispatch
    \/ WindowWait
    \/ WindowBreak
    \/ \E i \in Requests : WindowDrain(i)
    \/ WindowReport

SpecWindow == InitWindow /\ [][NextWindow]_vars

----------------------------------------------------------------------------
\* The delay of a dispatched call, as a function of the remaining time.

Max(a, b) == IF a >= b THEN a ELSE b
Min(a, b) == IF a <= b THEN a ELSE b

\* delay = min(max(remaining, 0.1), 10.0)
ClampNoFloor(r) == Min(r, MaxDelay)
Clamp(r) == Min(Max(r, MinDelay), MaxDelay)

\* The loop's turn has read the clock with any time remaining.
InitDelay ==
    /\ InitServer
    /\ ProberIdle
    /\ DefaultArgs
    /\ wpc = "check"
    /\ window_open = TRUE
    /\ max_workers \in Workers
    /\ pending = {}
    /\ drain_left = {}
    /\ successes = 0
    /\ failures = <<>>
    /\ total_sent = 0
    /\ call_state = [i \in Requests |-> "unsent"]
    /\ counted = [i \in Requests |-> <<>>]
    /\ window_report = <<>>
    /\ remaining \in Remainings
    /\ sleep_delay = 0

\* remaining = deadline - now; delay = min(max(remaining, 0.1), 10.0);
\* the call is submitted with that delay.
ComputeDelay ==
    /\ wpc = "check"
    /\ sleep_delay = 0
    /\ sleep_delay' = Clamp(remaining)
    /\ UNCHANGED <<serverVars, proberVars, windowVars, b_delay,
                   r_rearm_delay, remaining>>

SpecDelay == InitDelay /\ [][ComputeDelay]_vars

\* Either prober is run (main runs one after the other, the second from a
\* fresh state of its own).
InitProbers == InitProbe \/ InitWindow
NextProbers == NextProbe \/ NextWindow
SpecProbers == InitProbers /\ [][NextProbers]_vars

----------------------------------------------------------------------------
\* Vocabulary of the properties.

Suspended == {b \in Blocks : bpc[b] = "suspended"}
\* Blocked on the gate awaiting a release: suspended in wait(), or registered
\* and about to call it.
AtGate == {b \in Blocks : bpc[b] \in BeforeGate}
\* Past the gate and not yet decremented: the post-release hold.
InHold == {b \in Blocks : bpc[b] \in {"hold", "decrement"}}
Returned == {b \in Blocks : bpc[b] = "done"}

\* A release has taken its snapshot once it is past its first `with` block.
SnapshotTaken(r) == rpc[r] \notin {"start", "snapshot"}
TakesSnapshot(r) == ~SnapshotTaken(r) /\ SnapshotTaken(r)'

\* A release is inside its body from its snapshot to its response.
InBody(r) == rpc[r] \notin {"start", "done"}

\* Every call that was issued has returned or is suspended on the gate, and
\* no release is left to wake it.
Settled ==
    /\ \A r \in Releases : rpc[r] \in {"start", "done"}
    /\ \A b \in Blocks : bpc[b] \in {"start", "suspended", "done"}

----------------------------------------------------------------------------
\* C1: a block call that registered before a release took its snapshot is
\* woken by that release: once the release has returned, the call is not
\* suspended on the gate.
C1_RegisteredBeforeReleaseIsWoken ==
    \A b \in Blocks : \A r \in wave[b] :
        rpc[r] = "done" => b \notin Suspended

\* C2: every block call suspended on the gate when a release takes its
\* snapshot reports the round that this release reports.
C2_WaitersReportTheReleaseRound ==
    [][\A r \in Releases : \A b \in Blocks :
          (TakesSnapshot(r) /\ b \in Suspended)
              => b_current_round[b] = r_current_round'[r]]_vars

\* C3: release bodies are serialized: at no time are two release calls both
\* between their snapshot and their response.
C3_ReleaseBodiesSerialized ==
    Cardinality({r \in Releases : InBody(r)}) <= 1

\* The cooperative gate's settled outcomes: a release that reported
\* released_waiting = n was followed by at least n block calls returning.
OutcomeOfCooperativeGate ==
    Settled =>
        \A r \in Releases :
            rpc[r] = "done" => r_snapshot_waiting[r] <= Cardinality(Returned)

\* The cooperative gate produces only such outcomes.
CooperativeGateOutcomes == regime = "cooperative" => OutcomeOfCooperativeGate

\* C4: the threaded gate produces no set of responses that the cooperative
\* gate cannot produce: its settled outcomes are outcomes of the cooperative
\* gate.
C4_ThreadedOutcomesAreCooperative ==
    regime = "threaded" => OutcomeOfCooperativeGate

\* C5: in the threaded gate a step that changes waiting_requests,
\* release_round or the gate flag is taken by a thread that holds
\* concurrency_lock.
C5_MutationsHoldTheLock ==
    [][/\ \A b \in Blocks :
            (BlockThreadStep(b) /\ gateVars' # gateVars)
                => concurrency_lock = BlockThread(b)
       /\ \A r \in Releases :
            (ReleaseThreadStep(r) /\ gateVars' # gateVars)
                => concurrency_lock = ReleaseThread(r)]_vars

\* C6: waiting_requests is never negative.
C6_WaitingNeverNegative == waiting_requests >= 0

\* Both block calls have registered, passed the gate and decremented.
C6_Witness ==
    /\ Returned = Blocks
    /\ waiting_requests = 0
    /\ \E b \in Blocks : b_queued_at[b] = NumBlocks

C9_RoundCountsRearms ==
    release_round =
        1 + Cardinality({r \in Releases : rpc[r] = "done" /\ r_reset_gate[r]})

\* Two releases that overlapped (both took their snapshot at round 1) have
\* both re-armed.
C9_Witness ==
    /\ release_round = 3
    /\ r_current_round[1] = 1
    /\ r_current_round[2] = 1

\* C10: a release that starts after a re-arming release has returned reports
\* a strictly greater round.
C10_SuccessiveRoundsIncrease ==
    [][\A r1, r2 \in Releases :
          (rpc[r1] = "done" /\ r_reset_gate[r1] /\ TakesSnapshot(r2))
              => r_current_round'[r2] > r_current_round[r1]]_vars

\* Two re-arming releases, one after the other.
C10_Witness ==
    /\ rpc[1] = "done" /\ r_reset_gate[1]
    /\ rpc[2] = "done" /\ r_reset_gate[2]
    /\ r_current_round[2] > r_current_round[1]

\* C11: the pair (gate flag, round) moves only CLOSED(r) -> OPEN(r) by a
\* release and OPEN(r) -> CLOSED(r+1) by its re-arm: while the round is still
\* the one at which a release opened the gate, the gate is open (no call can
\* find it closed again at that round), and a step that raises the round of
\* a closed gate is one in which a release opened it.
C11_ClosedAgainOnlyAtNextRound ==
    /\ [](\A r \in Releases :
            (SnapshotTaken(r) /\ r_current_round[r] = release_round)
                => concurrency_gate)
    /\ [][(~concurrency_gate /\ ~concurrency_gate'
              /\ release_round' # release_round)
            => \E r \in Releases : TakesSnapshot(r)]_vars

\* C12: after a release without reset_gate has opened the gate and returned,
\* the gate stays open and the round stays the one it reported for as long
\* as no release with reset_gate has arrived after it (releases are numbered
\* in the order of their arrival).
C12_OpenUntilLaterRearm ==
    \A r \in Releases :
        (/\ rpc[r] = "done"
         /\ ~r_reset_gate[r]
         /\ \A q \in Releases :
                q > r => (rpc[q] = "start" \/ ~r_reset_gate[q]))
            => (concurrency_gate /\ release_round = r_current_round[r])

\* C13: a block call that arrives (registers) while the gate is open and not
\* yet re-armed does not suspend on the gate.
C13_ArrivedOpenDoesNotSuspend ==
    [][\A b \in arrived_open : bpc'[b] # "suspended"]_vars

\* A block call gets through the gate in this step.
PassesGate(b) ==
    bpc[b] \in {"start", "wait", "suspended"} /\ bpc'[b] = "hold"

\* C14: a block call passes the gate only if the gate was open when it
\* arrived or a release opened it at or after the call's registration; a
\* suspended call leaves the gate only in the step of a release's set().
C14_PassesOnlyOpenedGate ==
    [][\A b \in Blocks :
          /\ PassesGate(b) =>
                \/ bpc[b] = "start" /\ concurrency_gate
                \/ b \in arrived_open
                \/ wave'[b] # {}
          /\ (bpc[b] = "suspended" /\ bpc'[b] # "suspended") =>
                (bpc'[b] = "hold" /\ \E r \in Releases : TakesSnapshot(r))]_vars

\* A call registered at round 2, after the first release had re-armed, and
\* returned; the second release found it before the gate.
C14_Witness ==
    \E b \in Blocks :
        /\ bpc[b] = "done"
        /\ b_current_round[b] = 2
        /\ wave[b] = {2}
        /\ rpc[1] = "done" /\ r_reset_gate[1]

\* The block calls that have registered.
Registered == {b \in Blocks : bpc[b] \notin {"start", "register"}}

\* One release has been issued and its snapshot counted every block call
\* that has registered: k calls registered, then the release, and no other
\* block call has arrived since.
OneReleaseOfAllRegistered ==
    /\ {r \in Releases : rpc[r] # "start"} = {1}
    /\ SnapshotTaken(1)
    /\ r_snapshot_waiting[1] = Cardinality(Registered)

\* C15: when k block calls are registered, then released by one release, and
\* no other block call arrives, the j-th of them to complete reports
\* currently_waiting = k - j: in completion order k-1, k-2, ..., 0.
C15_RemainingCountsDown ==
    [][\A b \in Blocks :
          (bpc[b] # "done" /\ bpc'[b] = "done" /\ OneReleaseOfAllRegistered)
              => b_remaining'[b] =
                    r_snapshot_waiting[1] - Cardinality(Returned) - 1]_vars

\* Every block call was counted by the one release and all have returned.
C15_Witness ==
    /\ OneReleaseOfAllRegistered
    /\ r_snapshot_waiting[1] = NumBlocks
    /\ Returned = Blocks
    /\ {b_remaining[b] : b \in Blocks} = 0..(NumBlocks - 1)

----------------------------------------------------------------------------
\* Vocabulary of the prober's properties.

Levels == DOMAIN attempts

\* A block call of level i was collected as a non-200 response, as an
\* exception or as a timeout.
BlockCallFailed(i) ==
    \E j \in DOMAIN attempts[i].results : attempts[i].results[j] # "200"

\* The release call of level i raised.
ReleaseCallFailed(i) == attempts[i].release = "exception"

Reported(kind, level) ==
    \E n \in DOMAIN reports : reports[n] = <<kind, level>>

ReachedMaxReported == Reported("reached max", max_concurrency)

\* start, start + step, ...: the number of levels not above the ceiling.
ScheduleLength ==
    IF start > max_concurrency THEN 0
    ELSE (max_concurrency - start) \div step + 1
ScheduleLevel(i) == start + (i - 1) * step

\* C16: once a block call of level k has failed (the prober collected a
\* non-200 response, a timeout or another exception), the prober issues no
\* further block or release call (no level is entered, level k's release is
\* not repeated), only collects the rest of level k, and leaves the ramp
\* reporting the failure at k.
C16_FailedBlockCallStopsRamp ==
    [][(\E i \in Levels : BlockCallFailed(i)) =>
          /\ Len(attempts') = Len(attempts)
          /\ \A i \in Levels :
                /\ attempts'[i].level = attempts[i].level
                /\ attempts'[i].futures = attempts[i].futures
                /\ attempts'[i].release = attempts[i].release
          /\ ppc' \in {"collect", "done"}
          /\ ppc' = "done" =>
                reports' = Append(reports, <<"failure", concurrency>>)]_vars

\* A block call failed at the second level or later, the failure was
\* reported and the prober stopped with a higher level left in the range.
C16_Witness ==
    /\ ppc = "done"
    /\ Len(attempts) >= 2
    /\ BlockCallFailed(Len(attempts))
    /\ Reported("failure", concurrency)
    /\ InRange(range_next)

\* C17: the levels attempted are start, start + step, ... in this order, each
\* once and none above the ceiling; at level k, k block calls are submitted
\* to a pool of k workers.
C17_LevelsFollowSchedule ==
    /\ Len(attempts) <= ScheduleLength
    /\ \A i \in Levels :
          /\ attempts[i].level = ScheduleLevel(i)
          /\ attempts[i].level <= max_concurrency
          /\ attempts[i].futures = attempts[i].level
          /\ attempts[i].max_workers = attempts[i].level
    /\ \A i, j \in Levels : i < j => attempts[i].level < attempts[j].level

\* Three levels were attempted and the last one is the ceiling.
C17_Witness ==
    /\ Len(attempts) = 3
    /\ attempts[3].level = max_concurrency

NoFailure ==
    \A i \in Levels :
        /\ ~ReleaseCallFailed(i)
        /\ ~BlockCallFailed(i)
        /\ Len(attempts[i].results) = attempts[i].futures

NotOk(outcome) == outcome # "200"

\* C20: a level's verdict is given after all its k block calls have been
\* collected (each has returned, raised or timed out); the level is reported
\* successful if and only if all k returned 200, and errors holds one entry
\* for every collected call that did not.
C20_VerdictAfterAllCollected ==
    /\ \A i \in Levels :
          (Reported("succeeded", attempts[i].level)
              \/ Reported("failure", attempts[i].level)) =>
            /\ Len(attempts[i].results) = attempts[i].level
            /\ Reported("succeeded", attempts[i].level) <=> ~BlockCallFailed(i)
            /\ Reported("failure", attempts[i].level) <=> BlockCallFailed(i)
    /\ Levels # {} =>
          errors = SelectSeq(CurrentAttempt.results, NotOk)

\* The first call of a level failed with an error status, the calls after it
\* returned 200 and were collected, and the level was reported failed.
C20_Witness ==
    /\ Levels # {}
    /\ Len(CurrentAttempt.results) >= 3
    /\ CurrentAttempt.results[1] = "HTTP"
    /\ \A j \in 2..Len(CurrentAttempt.results) : CurrentAttempt.results[j] = "200"
    /\ Reported("failure", concurrency)

----------------------------------------------------------------------------
\* C21: in the burst dispatcher the pending set never holds more than
\* max_workers calls, and from a state where it holds max_workers no call is
\* dispatched: the set only loses calls, and only calls that have completed.
C21_PendingBoundedByMaxWorkers ==
    /\ [](Cardinality(pending) <= max_workers)
    /\ [][Cardinality(pending) >= max_workers =>
            /\ total_sent' = total_sent
            /\ pending' \subseteq pending
            /\ \A i \in pending \ pending' : call_state[i] # "running"]_vars

\* The pool is full again after the dispatcher has waited for a completed
\* call and refilled it.
C21_Witness ==
    /\ max_workers >= 2
    /\ Cardinality(pending) = max_workers
    /\ total_sent > max_workers
    /\ wpc = "wait"

\* The calls dispatched so far.
Dispatched == {i \in Requests : i < total_sent}

\* C22: when the drain has returned, every dispatched call has completed and
\* was counted exactly once, in the window or in the drain, as a success or
\* as a failure: successes + len(failures) = total_sent.
C22_EveryCallCountedOnce ==
    wpc = "done" =>
        /\ \A i \in Dispatched :
              /\ call_state[i] \in Outcomes
              /\ Len(counted[i]) = 1
        /\ successes = Cardinality(Succeeded(Dispatched))
        /\ Len(failures) = Cardinality(Failed(Dispatched))
        /\ successes + Len(failures) = total_sent

\* One call was counted while the pool was full, another one in the drain;
\* one succeeded and one failed.
C22_Witness ==
    /\ wpc = "done"
    /\ \E i, j \in Dispatched :
          /\ counted[i] = <<"window">>
          /\ counted[j] = <<"drain">>
    /\ successes >= 1
    /\ Len(failures) >= 1

\* C23: when the window has elapsed at the loop's first test, no call is
\* dispatched, and the dispatcher ends reporting 0 dispatched, 0 succeeded
\* and 0 failed.
C23_ElapsedWindowReportsZero ==
    /\ [][(wpc = "check" /\ total_sent = 0 /\ ~window_open) =>
            (wpc' = "drain" /\ total_sent' = 0 /\ drain_left' = {})]_vars
    /\ []((wpc = "done" /\ total_sent = 0) =>
            window_report = <<[dispatched |-> 0, succeeded |-> 0,
                               failed |-> 0]>>)

\* The dispatcher has ended without a call.
C23_Witness ==
    /\ wpc = "done"
    /\ total_sent = 0
    /\ window_report # <<>>

----------------------------------------------------------------------------
\* Validation of the arguments

\* The argument is a number within [0.0, hi].
WithinBounds(arg, hi) == arg.kind = "num" /\ 0 <= arg.val /\ arg.val <= hi

\* The requests whose argument is malformed or outside its bounds.
InvalidBlocks == {b \in Blocks : ~WithinBounds(b_delay[b], BlockDelayMax)}
InvalidReleases ==
    {r \in Releases : ~WithinBounds(r_rearm_delay[r], RearmDelayMax)}

\* C24: a block request whose delay is malformed or outside [0.0, 30.0], and
\* a release request whose rearm_delay is malformed or outside [0.0, 5.0],
\* takes one step only, the error response, and that step leaves
\* waiting_requests, release_round and the gate flag as they are and wakes
\* no waiter.
C24_InvalidArgumentRejected ==
    [][/\ \A b \in InvalidBlocks :
             bpc'[b] # bpc[b] =>
                 /\ bpc'[b] = "rejected"
                 /\ UNCHANGED gateVars
                 /\ \A o \in Blocks \ {b} : bpc'[o] = bpc[o]
        /\ \A r \in InvalidReleases :
             rpc'[r] # rpc[r] =>
                 /\ rpc'[r] = "rejected"
                 /\ UNCHANGED gateVars
                 /\ UNCHANGED bpc]_vars


----------------------------------------------------------------------------
\* Critical sections

\* Inside the first `with concurrency_lock` block of concurrency_block.
InRegistration == {b \in Blocks :
                     bpc[b] \in {"register", "capture_round", "capture_queued"}}

\* The registration of b ends in this step.
RegistrationEnds(b) ==
    /\ bpc[b] \in {"start", "capture_queued"}
    /\ bpc'[b] \in {"wait", "suspended", "hold"}

\* Registered and not yet decremented.
Positioned == {b \in Blocks :
                 bpc[b] \in {"wait", "suspended", "hold", "decrement"}}

\* C25: while a block call is inside its registration no other call takes a
\* step on the counter, the round or the gate's opening (no registration,
\* decrement, snapshot or round increment); the registration ends with
\* queued_position equal to waiting_requests after the call's own increment,
\* at least 1, and with the round of that instant; and as long as no call
\* has finished, the k registered calls hold the positions 1..k.
C25_RegistrationAtomic ==
    /\ []((\A b \in Blocks : bpc[b] # "done") =>
             {b_queued_at[b] : b \in Positioned} = 1..Cardinality(Positioned))
    /\ [][\A b \in Blocks :
             /\ (b \in InRegistration /\ bpc'[b] = bpc[b]) =>
                    /\ UNCHANGED <<waiting_requests, release_round, blockLocals,
                                   r_snapshot_waiting, r_current_round>>
                    /\ concurrency_gate' => concurrency_gate
                    /\ InRegistration' = InRegistration
             /\ RegistrationEnds(b) =>
                    /\ b_queued_at'[b] = waiting_requests'
                    /\ b_queued_at'[b] >= 1
                    /\ b_current_round'[b] = release_round'
                    /\ b_queued_at'[b] = Cardinality(Positioned') ]_vars

\* Two calls registered in the threaded regime while none finished, the
\* second at position 2.
C25_Witness ==
    /\ regime = "threaded"
    /\ \A b \in Blocks : bpc[b] # "done"
    /\ Cardinality(Positioned) >= 2
    /\ \E b \in Positioned : b_queued_at[b] = 2

\* Inside the first `with concurrency_lock` block of concurrency_release,
\* past the read of waiting_requests.
InSnapshot == {r \in Releases : rpc[r] \in {"read_round", "set"}}

\* Release r opens the gate in this step.
Opens(r) ==
    /\ rpc[r] \in {"start", "set"}
    /\ rpc'[r] \in {"rearm", "done"}

\* C26: between a release's read of waiting_requests and its opening of the
\* gate the counter and the round do not change and no block call enters
\* or leaves its registration or decrement; at the opening released_waiting
\* equals waiting_requests and the reported round equals release_round as
\* they are at that instant; and the re-arm that follows changes neither
\* reported value.
C26_SnapshotAndOpeningTogether ==
    [][\A r \in Releases :
         /\ r \in InSnapshot =>
                /\ UNCHANGED <<waiting_requests, release_round>>
                /\ InRegistration' = InRegistration
                /\ \A b \in Blocks : bpc[b] = "decrement" <=> bpc'[b] = "decrement"
         /\ Opens(r) =>
                /\ r_snapshot_waiting'[r] = waiting_requests
                /\ r_current_round'[r] = release_round
                /\ waiting_requests' = waiting_requests
         /\ SnapshotTaken(r) /\ r \notin InSnapshot =>
                /\ r_snapshot_waiting'[r] = r_snapshot_waiting[r]
                /\ r_current_round'[r] = r_current_round[r] ]_vars

\* A threaded release re-armed the gate after a snapshot of a registered
\* call: its reported round is the one before the increment.
C26_Witness ==
    /\ regime = "threaded"
    /\ \E r \in Releases :
          /\ rpc[r] = "done"
          /\ r_reset_gate[r]
          /\ r_snapshot_waiting[r] >= 1
          /\ r_current_round[r] < release_round

----------------------------------------------------------------------------
\* Abandoned calls

\* Suspended on the gate with the client gone.
Abandoned == {b \in Blocks : bpc[b] = "abandoned"}
\* Abandoned and cancelled at the await: never resumes.
Cancelled == {b \in Blocks : bpc[b] = "cancelled"}

\* The step decrements waiting_requests for call b.
DecrementsFor(b) == bpc[b] # "done" /\ bpc'[b] = "done"

\* C27: waiting_requests goes down only by one and only in the step of a
\* call that has passed the gate and finished its post-release hold; a call
\* abandoned while suspended stays counted in waiting_requests and in the
\* released_waiting of every release that takes its snapshot meanwhile, and
\* it leaves the suspension only through a release that opens the gate,
\* after which it runs the hold and the decrement like any other call.
C27_DecrementOnlyAfterHold ==
    /\ [](waiting_requests >= Cardinality(Abandoned \cup Cancelled)
                               + Cardinality(InHold))
    /\ [][/\ waiting_requests' < waiting_requests =>
               /\ waiting_requests' = waiting_requests - 1
               /\ \E b \in InHold : DecrementsFor(b)
          /\ \A b \in Blocks : DecrementsFor(b) => b \in InHold
          /\ \A b \in Abandoned :
               /\ bpc'[b] \in {"abandoned", "cancelled", "hold"}
               /\ bpc'[b] = "hold" => \E r \in Releases : Opens(r)
          /\ \A r \in Releases :
               Opens(r) => r_snapshot_waiting'[r] >= Cardinality(Abandoned)
         ]_vars

\* Another call has returned and a release has finished, and the counter
\* still counts exactly the calls abandoned in their suspension.
C27_Witness ==
    /\ Abandoned # {}
    /\ waiting_requests = Cardinality(Abandoned)
    /\ \E b \in Blocks : bpc[b] = "done"
    /\ \E r \in Releases : rpc[r] = "done"

----------------------------------------------------------------------------
\* The prober against the gate

\* The block calls of the level the prober is at.
LevelCalls == {b \in Blocks : b <= concurrency}

\* Block call b of the level registered after the level's release had
\* re-armed the gate: the round it captured is the one after the release's.
Late(b) ==
    /\ b \in LevelCalls
    /\ bpc[b] # "start"
    /\ LevelRelease \in Releases
    /\ SnapshotTaken(LevelRelease)
    /\ b_current_round[b] > r_current_round[LevelRelease]

\* The last line the prober printed.
LastReport == reports[Len(reports)]

\* C28: a block call of level k that registers after the level's release
\* has re-armed the gate is counted by the server and stays blocked on the
\* gate (no other release is issued in the level); when the prober collects
\* it, it is a failure of the client (an exception or a timeout); the level
\* is never reported as succeeded, no further level is started, and the
\* prober ends with a failure reported at level k.
C28_LateCallFailsLevel ==
    \A b \in Blocks :
        Late(b) =>
            /\ bpc[b] \in BeforeGate
            /\ waiting_requests >= 1
            /\ \A r \in Releases : r > LevelRelease => rpc[r] = "start"
            /\ b \in DOMAIN CurrentAttempt.results =>
                   CurrentAttempt.results[b] \in {"exception", "timeout"}
            /\ ~Reported("succeeded", concurrency)
            /\ ppc # "loop"
            /\ ppc = "done" =>
                   \/ LastReport = <<"failure", concurrency>>
                   \/ LastReport = <<"release failed", concurrency>>

\* Level 2: the server registered both calls, one was released and returned
\* 200, the other registered late and was collected as a failure, and the
\* prober stopped with the failure of level 2.
C28_Witness ==
    /\ concurrency = 2
    /\ ppc = "done"
    /\ LastReport = <<"failure", 2>>
    /\ \E b \in LevelCalls :
          /\ Late(b)
          /\ CurrentAttempt.results[b] # "200"
          /\ \E o \in LevelCalls : bpc[o] = "done" /\ CurrentAttempt.results[o] = "200"

----------------------------------------------------------------------------
\* Order of the calls within a level

\* The release call of level i has been issued.
ReleaseIssued(i) == attempts[i].release # "none"

\* C29: every level submits its k block calls before anything else; its
\* release call is issued once, when all k calls are submitted and none is
\* collected; nothing is collected before the release call; and the prober
\* leaves no level without having issued its release call.
C29_OneReleaseBetweenSubmitAndCollect ==
    /\ [](\A i \in Levels :
             /\ attempts[i].futures = attempts[i].level
             /\ ~ReleaseIssued(i) =>
                    /\ attempts[i].results = <<>>
                    /\ i = Len(attempts)
                    /\ ppc = "release")
    /\ [][\A i \in Levels :
             attempts'[i].release # attempts[i].release =>
                 /\ ~ReleaseIssued(i)
                 /\ attempts[i].futures = attempts[i].level
                 /\ attempts'[i].results = <<>>
                 /\ i = Len(attempts)]_vars

\* A level of two calls whose release call returned and whose two calls
\* have been collected.
C29_Witness ==
    \E i \in Levels :
        /\ attempts[i].level >= 2
        /\ attempts[i].release = "200"
        /\ Len(attempts[i].results) = attempts[i].level

----------------------------------------------------------------------------
\* No request is issued twice

\* The request ids recorded as failures by probe_sleep_window.
FailedIds == {failures[n] : n \in DOMAIN failures}

\* results is old with at most one result added at its end.
Extends(results, old) ==
    /\ Len(results) \in {Len(old), Len(old) + 1}
    /\ \A j \in DOMAIN old : results[j] = old[j]

\* C30: in the burst dispatcher a request index is submitted only when it
\* is the next unused index (total_sent, which then grows by one), so every
\* index is submitted once, and a call that has failed keeps its failure
\* and is listed once among the failures; in the ramp prober the levels are
\* distinct, a level's k calls are submitted once (the number of its
\* futures never changes), every collected result stays as collected, and
\* every failed call of the level being collected is one entry of errors.
C30_NoRequestReissued ==
    /\ [](/\ \A i \in Requests :
                 /\ i >= total_sent <=> call_state[i] = "unsent"
                 /\ Len(counted[i]) <= 1
                 /\ i \in FailedIds => call_state[i] \in {"HTTP", "exception"}
          /\ Cardinality(FailedIds) = Len(failures)
          /\ \A i, j \in Levels : i < j => attempts[i].level < attempts[j].level
          /\ \A i \in Levels : Len(attempts[i].results) <= attempts[i].level
          /\ ppc = "collect" =>
                Len(errors) = Cardinality({j \in DOMAIN CurrentAttempt.results :
                                             CurrentAttempt.results[j] # "200"}))
    /\ [][/\ \A i \in Requests :
                /\ call_state'[i] = "running" /\ call_state[i] # "running" =>
                       /\ call_state[i] = "unsent"
                       /\ i = total_sent
                       /\ total_sent' = total_sent + 1
                /\ call_state[i] \notin {"unsent", "running"} =>
                       call_state'[i] = call_state[i]
          /\ total_sent' >= total_sent
          /\ \A i \in Levels :
                /\ attempts'[i].futures = attempts[i].futures
                /\ attempts'[i].level = attempts[i].level
                /\ Extends(attempts'[i].results, attempts[i].results)]_vars

\* The burst dispatcher has finished with a failed call listed, or the ramp
\* prober has stopped at a level with a failed call.
C30_Witness ==
    \/ /\ wpc = "done"
       /\ total_sent >= 2
       /\ FailedIds # {}
    \/ /\ ppc = "done"
       /\ \E i \in Levels :
             attempts[i].level >= 2 /\ BlockCallFailed(i)

----------------------------------------------------------------------------
\* The window of the burst dispatcher

\* A call is dispatched in this step.
Dispatches == total_sent' # total_sent

\* C31: a call is dispatched only in a turn of the loop whose test found the
\* elapsed time below the window duration; the dispatcher blocked on a full
\* pool dispatches nothing and comes back to the test before it dispatches
\* again; and once the loop has been left nothing is dispatched.
C31_DispatchOnlyInsideWindow ==
    [][/\ Dispatches => (wpc = "check" /\ window_open)
       /\ wpc = "wait" => (~Dispatches /\ wpc' \in {"wait", "check"})
       /\ wpc \in {"drain", "done"} => (~Dispatches /\ wpc' \in {"drain", "done"})
       /\ ~window_open => (~Dispatches /\ ~window_open')]_vars

\* The dispatcher was blocked on a full pool, dispatched again after it,
\* and the window closed while it was blocked on the full pool once more.
C31_Witness ==
    /\ wpc = "wait"
    /\ ~window_open
    /\ total_sent > max_workers

\* C32: the delay of a dispatched call is 0.1 s when less than 0.1 s
\* remains, 10.0 s when more than 10.0 s remains and the remaining time
\* otherwise, so it lies within [0.1, 10.0].
C32_DelayIsClampedRemaining ==
    sleep_delay # 0 =>
        /\ sleep_delay = (IF remaining < MinDelay THEN MinDelay
                          ELSE IF remaining > MaxDelay THEN MaxDelay
                          ELSE remaining)
        /\ MinDelay <= sleep_delay
        /\ sleep_delay <= MaxDelay

\* Less than 0.1 s remained and the call was given 0.1 s.
C32_Witness == remaining < MinDelay /\ sleep_delay = MinDelay

----------------------------------------------------------------------------
\* The counter

\* The block calls whose `waiting_requests += 1` has been executed and
\* whose `waiting_requests -= 1` has not: registering past the increment,
\* blocked on the gate, in the post-release hold, or about to decrement.
Counted == {b \in Blocks :
              bpc[b] \in {"capture_round", "capture_queued", "wait",
                          "suspended", "abandoned", "hold", "decrement",
                          "store_decrement"}}

\* C33: in both regimes waiting_requests equals the number of block calls
\* that have executed their increment and not yet their decrement, whatever
\* the interleaving of the reads and writes of the counter.
C33_WaitingCountsRegistered == waiting_requests = Cardinality(Counted)

\* Threaded: one call is about to write its decrement while another is
\* suspended on the gate and both are counted.
C33_Witness ==
    /\ regime = "threaded"
    /\ waiting_requests = 2
    /\ \E b1, b2 \in Blocks :
          bpc[b1] = "store_decrement" /\ bpc[b2] = "suspended"

----------------------------------------------------------------------------
\* Releases that a registered call misses

\* The releases that call b has missed: b was registered and before the
\* gate at their snapshot (they are the first release that counted b, or a
\* later one), they have re-armed the gate, and b is still before the gate.
Missed(b) ==
    IF bpc[b] \in BeforeGate /\ wave[b] # {}
    THEN {r \in Releases :
            /\ \E first \in wave[b] : r >= first
            /\ SnapshotTaken(r)
            /\ r_reset_gate[r]
            /\ rpc[r] \in {"cleared", "done"}}
    ELSE {}

\* C34: under fair scheduling a call suspended on the gate returns its
\* response (after its decrement) once another release call is issued, and
\* a registered call misses at most one release.
C34_ReturnsAfterAtMostOneMiss ==
    /\ [](\A b \in Blocks : Cardinality(Missed(b)) <= 1)
    /\ \A b \in Blocks :
          (bpc[b] = "suspended" /\ \E r \in Releases : rpc[r] = "start")
              ~> (bpc[b] = "done")

\* The liveness part of C34 alone.
SuspendedCallReturns ==
    \A b \in Blocks :
        (bpc[b] = "suspended" /\ \E r \in Releases : rpc[r] = "start")
            ~> (bpc[b] = "done")

----------------------------------------------------------------------------
\* The gate as the ramp prober finds it

\* The step that launches the block calls of a level.
LaunchesLevel == Len(attempts') = Len(attempts) + 1

\* C35: with the ramp prober as the only client of a fresh gate, when the
\* block calls of a level are launched the gate is closed and
\* waiting_requests is 0; the release of the i-th level reads round i and
\* its released_waiting is at most the level's concurrency.
C35_LevelStartsOnQuietGate ==
    /\ [][LaunchesLevel => (~concurrency_gate' /\ waiting_requests' = 0)]_vars
    /\ [](\A r \in Releases :
            SnapshotTaken(r) =>
                /\ r <= Len(attempts)
                /\ r_current_round[r] = r
                /\ r_snapshot_waiting[r] <= attempts[r].level)

C35_Witness ==
    /\ Len(attempts) = 2
    /\ reports = << <<"succeeded", attempts[1].level>> >>
    /\ rpc[2] = "done"
    /\ r_current_round[2] = 2
    /\ r_snapshot_waiting[2] = attempts[2].level
    /\ attempts[2].level = 2

----------------------------------------------------------------------------
\* Return of the ramp prober

\* The calls launched by the prober whose worker has not been joined: the
\* calls still in flight are among them.
InFlight == UNION {attempts[i].running : i \in Levels}

\* C36: probe_concurrency terminates, and when it has returned no block
\* call it launched is still in flight, whether the ramp ended by a failed
\* level, by a failed release or by reaching the ceiling.
C36_ReturnsAfterPoolJoined ==
    /\ [](ppc = "returned" => InFlight = {})
    /\ <>(ppc = "returned")

\* The release of level 2 raised while both block calls were suspended on
\* the gate: the prober has returned and the handlers are still suspended.
C36_Witness ==
    /\ ppc = "returned"
    /\ concurrency = 2
    /\ LastReport = <<"release failed", 2>>
    /\ \A b \in LevelCalls : bpc[b] = "suspended"

----------------------------------------------------------------------------
\* A release answered with an error status

\* The release call of level i returned a response with an error status.
ReleaseRefused(i) == attempts[i].release = "HTTP"

\* All block calls of level i have been collected.
Collected(i) == Len(attempts[i].results) = attempts[i].futures

\* C37: a release call that returns an error status without raising does
\* not abort the ramp: the prober goes on to collect the level's block
\* calls, and the level is reported successful or failed by their outcomes
\* alone.
C37_ErrorStatusReleaseGoesOn ==
    /\ [][(ppc = "release" /\ ppc' # "release" /\ ReleaseRefused(Len(attempts))')
             => (ppc' = "collect" /\ reports' = reports /\ errors' = <<>>)]_vars
    /\ [](\A i \in Levels :
            ReleaseRefused(i) =>
                /\ ~Reported("release failed", attempts[i].level)
                /\ Reported("succeeded", attempts[i].level)
                       <=> (Collected(i) /\ ~BlockCallFailed(i)
                              /\ (i = Len(attempts) => ppc # "collect"))
                /\ Reported("failure", attempts[i].level)
                       <=> (Collected(i) /\ BlockCallFailed(i)
                              /\ (i = Len(attempts) => ppc # "collect")))

\* The release of the first level was answered with an error status and the
\* level succeeded; the release of the second was too and the level failed.
C37_Witness ==
    /\ Len(attempts) = 2
    /\ ReleaseRefused(1) /\ Reported("succeeded", attempts[1].level)
    /\ ReleaseRefused(2) /\ Reported("failure", attempts[2].level)

=============================================================================
